---------------------------- MODULE Spec2Model ----------------------------
(***************************************************************************)
(* A model of furiosa-metadata (src/src/lib.rs): one run of                *)
(* set_metadata_env_vars, with the environment variables it reads and the  *)
(* outputs of the subprocesses it spawns (cargo locate-project, git        *)
(* rev-parse, git status) drawn from small sets.                           *)
(*                                                                         *)
(* Text is a sequence of characters, each character a TLA+ string.  NUL    *)
(* stands for the byte 0 and XFF for a byte that is not valid UTF-8.       *)
(***************************************************************************)
EXTENDS Integers, Sequences, FiniteSets, TLC

\* The largest number of records in a status report the environment emits.
MaxRecords == 2

NUL == "NUL"
XFF == "xFF"
\* the grave accent that quotes a command line in a message
BACKTICK == "BACKTICK"

-----------------------------------------------------------------------------
(* Text helpers: the std operations the code calls.                        *)

\* The characters of the model in ASCII order, for comparisons of characters.
Ascii ==
    << NUL, "\n", " ", "!", "*", "-", ".", "/", "0", "1", "2", "3", "4", "5",
       "6", "7", "8", "9", ":", "?", "A", "C", "D", "F", "G", "M", "R", "T",
       "U", "X", "[", "]", "a", "b", "c", "d", "e", "f", "g", "h", "i", "j",
       "k", "l", "m", "n", "o", "p", "q", "r", "s", "t", "u", "v", "w", "x",
       "y", "z", XFF >>

Ord(c) == CHOOSE i \in 1..Len(Ascii) : Ascii[i] = c

\* char::is_whitespace, on the characters of the model
IsWhitespace(c) == c \in {" ", "\n"}

\* str::trim_end
RECURSIVE TrimEnd(_)
TrimEnd(s) ==
    IF s = <<>> THEN <<>>
    ELSE IF IsWhitespace(s[Len(s)]) THEN TrimEnd(SubSeq(s, 1, Len(s) - 1))
    ELSE s

\* str::trim
RECURSIVE TrimStart(_)
TrimStart(s) ==
    IF s = <<>> THEN <<>>
    ELSE IF IsWhitespace(Head(s)) THEN TrimStart(Tail(s))
    ELSE s

Trim(s) == TrimStart(TrimEnd(s))

\* str::starts_with
StartsWith(s, prefix) ==
    /\ Len(s) >= Len(prefix)
    /\ SubSeq(s, 1, Len(prefix)) = prefix

\* str::split(sep): the pieces between separators, always at least one piece
RECURSIVE SplitFrom(_, _, _)
SplitFrom(s, sep, piece) ==
    IF s = <<>> THEN << piece >>
    ELSE IF Head(s) = sep THEN << piece >> \o SplitFrom(Tail(s), sep, <<>>)
    ELSE SplitFrom(Tail(s), sep, Append(piece, Head(s)))

Split(s, sep) == SplitFrom(s, sep, <<>>)

\* str::split_terminator(sep): as split, with a trailing empty piece skipped
SplitTerminator(s, sep) ==
    LET pieces == Split(s, sep)
    IN  IF pieces[Len(pieces)] = <<>>
        THEN SubSeq(pieces, 1, Len(pieces) - 1)
        ELSE pieces

\* str::from_utf8(bytes).is_ok()
IsUtf8(bytes) == \A i \in 1..Len(bytes) : bytes[i] # XFF

\* <[u8]>::escape_ascii, one byte
EscapeByte(b) ==
    IF b = "\n" THEN << "\\", "n" >>
    ELSE IF b = NUL THEN << "\\", "x", "0", "0" >>
    ELSE IF b = XFF THEN << "\\", "x", "f", "f" >>
    ELSE << b >>

RECURSIVE EscapeAscii(_)
EscapeAscii(bytes) ==
    IF bytes = <<>> THEN <<>>
    ELSE EscapeByte(Head(bytes)) \o EscapeAscii(Tail(bytes))

\* Path::parent of a path given as text: the text before the last component
RECURSIVE StripLastComponent(_)
StripLastComponent(p) ==
    IF p = <<>> THEN <<>>
    ELSE IF p[Len(p)] = "/" THEN p
    ELSE StripLastComponent(SubSeq(p, 1, Len(p) - 1))

RECURSIVE StripTrailingSeparators(_)
StripTrailingSeparators(p) ==
    IF Len(p) > 1 /\ p[Len(p)] = "/"
    THEN StripTrailingSeparators(SubSeq(p, 1, Len(p) - 1))
    ELSE p

PathParent(p) == StripTrailingSeparators(StripLastComponent(p))

-----------------------------------------------------------------------------
(* glob::Pattern, as the code uses it: Pattern::new (line 94) and          *)
(* Pattern::matches (line 162), which is matches_with under                *)
(* MatchOptions::new().                                                    *)

IsSeparator(c) == c = "/"

Tok(t, c, cs) == [t |-> t, c |-> c, cs |-> cs]
TokChar(c) == Tok("Char", c, <<>>)
TokAnyChar == Tok("AnyChar", "", <<>>)
TokAnySequence == Tok("AnySequence", "", <<>>)
TokAnyRecursiveSequence == Tok("AnyRecursiveSequence", "", <<>>)

\* parse_char_specifiers: "a-z" is a range, anything else a single character
RECURSIVE ParseCharSpecifiers(_)
ParseCharSpecifiers(s) ==
    IF s = <<>> THEN <<>>
    ELSE IF Len(s) >= 3 /\ s[2] = "-"
         THEN << [lo |-> s[1], hi |-> s[3]] >> \o ParseCharSpecifiers(SubSeq(s, 4, Len(s)))
         ELSE << [lo |-> s[1], hi |-> s[1]] >> \o ParseCharSpecifiers(Tail(s))

\* the position of the first "]" of s, counted from 0, or -1
PositionOfBracket(s) ==
    IF \E j \in 1..Len(s) : s[j] = "]"
    THEN (CHOOSE j \in 1..Len(s) : s[j] = "]" /\ \A k \in 1..(j - 1) : s[k] # "]") - 1
    ELSE -1

\* the number of "*" at the front of s
RECURSIVE CountStars(_)
CountStars(s) ==
    IF s # <<>> /\ Head(s) = "*" THEN 1 + CountStars(Tail(s)) ELSE 0

\* Pattern::new from position i (counted from 1): the tokens, or an error
RECURSIVE PatternTokens(_, _, _)
PatternTokens(chars, i, tokens) ==
    IF i > Len(chars) THEN [ok |-> TRUE, tokens |-> tokens]
    ELSE IF chars[i] = "?" THEN PatternTokens(chars, i + 1, Append(tokens, TokAnyChar))
    ELSE IF chars[i] = "*" THEN
        LET count == CountStars(SubSeq(chars, i, Len(chars)))
            next == i + count
        IN  IF count > 2 THEN [ok |-> FALSE, tokens |-> <<>>]
            ELSE IF count = 2 THEN
                IF i = 1 \/ IsSeparator(chars[i - 1])
                THEN IF next <= Len(chars) /\ IsSeparator(chars[next])
                     THEN PatternTokens(chars, next + 1,
                            IF Len(tokens) > 1 /\ tokens[Len(tokens)] = TokAnyRecursiveSequence
                            THEN tokens ELSE Append(tokens, TokAnyRecursiveSequence))
                     ELSE IF next = Len(chars) + 1
                     THEN PatternTokens(chars, next,
                            IF Len(tokens) > 1 /\ tokens[Len(tokens)] = TokAnyRecursiveSequence
                            THEN tokens ELSE Append(tokens, TokAnyRecursiveSequence))
                     ELSE [ok |-> FALSE, tokens |-> <<>>]
                ELSE [ok |-> FALSE, tokens |-> <<>>]
            ELSE PatternTokens(chars, next, Append(tokens, TokAnySequence))
    ELSE IF chars[i] = "[" THEN
        IF i + 3 <= Len(chars) /\ chars[i + 1] = "!"
        THEN LET j == PositionOfBracket(SubSeq(chars, i + 3, Len(chars)))
             IN  IF j < 0 THEN [ok |-> FALSE, tokens |-> <<>>]
                 ELSE PatternTokens(chars, i + j + 4,
                        Append(tokens, Tok("AnyExcept", "",
                            ParseCharSpecifiers(SubSeq(chars, i + 2, i + 2 + j)))))
        ELSE IF i + 2 <= Len(chars) /\ chars[i + 1] # "!"
        THEN LET j == PositionOfBracket(SubSeq(chars, i + 2, Len(chars)))
             IN  IF j < 0 THEN [ok |-> FALSE, tokens |-> <<>>]
                 ELSE PatternTokens(chars, i + j + 3,
                        Append(tokens, Tok("AnyWithin", "",
                            ParseCharSpecifiers(SubSeq(chars, i + 1, i + 1 + j)))))
        ELSE [ok |-> FALSE, tokens |-> <<>>]
    ELSE PatternTokens(chars, i + 1, Append(tokens, TokChar(chars[i])))

\* Pattern::new
PatternNew(pattern) == PatternTokens(pattern, 1, <<>>)

\* MatchOptions::new(), the options Pattern::matches passes
MatchOptionsNew ==
    [case_sensitive |-> TRUE,
     require_literal_separator |-> FALSE,
     require_literal_leading_dot |-> FALSE]

\* in_char_specifiers, case sensitive
InCharSpecifiers(cs, c) ==
    \E k \in 1..Len(cs) : Ord(cs[k].lo) <= Ord(c) /\ Ord(c) <= Ord(cs[k].hi)

\* one token that consumes exactly one character
TokenMatchesChar(tok, c, follows_separator, options) ==
    IF /\ tok.t \in {"AnyChar", "AnyWithin", "AnyExcept"}
       /\ \/ options.require_literal_separator /\ IsSeparator(c)
          \/ follows_separator /\ options.require_literal_leading_dot /\ c = "."
    THEN FALSE
    ELSE IF tok.t = "AnyChar" THEN TRUE
    ELSE IF tok.t = "AnyWithin" THEN InCharSpecifiers(tok.cs, c)
    ELSE IF tok.t = "AnyExcept" THEN ~InCharSpecifiers(tok.cs, c)
    ELSE tok.c = c

\* Pattern::matches_from: "Match", "SubPatternDoesntMatch" or
\* "EntirePatternDoesntMatch".  SequenceLoop is the while loop of a "*" or "**"
\* token over the rest of the file name.
RECURSIVE MatchesFrom(_, _, _, _, _)
RECURSIVE SequenceLoop(_, _, _, _, _)
MatchesFrom(tokens, follows_separator, file, i, options) ==
    IF i > Len(tokens)
    THEN IF file = <<>> THEN "Match" ELSE "SubPatternDoesntMatch"
    ELSE IF tokens[i].t \in {"AnySequence", "AnyRecursiveSequence"}
    THEN LET m == MatchesFrom(tokens, follows_separator, file, i + 1, options)
         IN  IF m # "SubPatternDoesntMatch" THEN m
             ELSE SequenceLoop(tokens, follows_separator, file, i, options)
    ELSE IF file = <<>> THEN "EntirePatternDoesntMatch"
    ELSE IF ~TokenMatchesChar(tokens[i], Head(file), follows_separator, options)
    THEN "SubPatternDoesntMatch"
    ELSE MatchesFrom(tokens, IsSeparator(Head(file)), Tail(file), i + 1, options)

SequenceLoop(tokens, follows_separator, file, i, options) ==
    IF file = <<>>
    THEN MatchesFrom(tokens, follows_separator, file, i + 1, options)
    ELSE LET c == Head(file)
             sep == IsSeparator(c)
         IN  IF follows_separator /\ options.require_literal_leading_dot /\ c = "."
             THEN "SubPatternDoesntMatch"
             ELSE IF tokens[i].t = "AnyRecursiveSequence" /\ ~sep
             THEN SequenceLoop(tokens, sep, Tail(file), i, options)
             ELSE IF /\ tokens[i].t = "AnySequence"
                     /\ options.require_literal_separator /\ sep
             THEN "SubPatternDoesntMatch"
             ELSE LET m == MatchesFrom(tokens, sep, Tail(file), i + 1, options)
                  IN  IF m # "SubPatternDoesntMatch" THEN m
                      ELSE SequenceLoop(tokens, sep, Tail(file), i, options)

\* Pattern::matches
PatternMatches(pattern, path) ==
    MatchesFrom(pattern, TRUE, path, 1, MatchOptionsNew) = "Match"

-----------------------------------------------------------------------------
(* Text and messages.  A literal piece of a format string is one element.  *)

Lit(s) == << s >>

\* [&str]::join(sep)
RECURSIVE Join(_, _)
Join(words, sep) ==
    IF words = <<>> THEN <<>>
    ELSE IF Len(words) = 1 THEN Lit(words[1])
    ELSE Lit(words[1]) \o Lit(sep) \o Join(Tail(words), sep)

\* needle occurs in hay as a contiguous part
IsInfix(needle, hay) ==
    \E k \in 0..(Len(hay) - Len(needle)) :
        SubSeq(hay, k + 1, k + Len(needle)) = needle

PATTERN_VAR == "FURIOSA_METADATA_EXPECT_MODIFIED"

Running == [tag |-> "Running", kind |-> "", msg |-> <<>>]
Ok == [tag |-> "Ok", kind |-> "", msg |-> <<>>]
Err(kind, msg) == [tag |-> "Err", kind |-> kind, msg |-> msg]

-----------------------------------------------------------------------------
(* get_expected_patterns, lines 82-103                                     *)

\* lines 90-98 with empty pieces dropped in place of reported
RECURSIVE CollectPatternsSkippingEmpty(_, _)
CollectPatternsSkippingEmpty(pieces, acc) ==
    IF pieces = <<>> THEN [ok |-> TRUE, patterns |-> acc, err |-> Running]
    ELSE IF Head(pieces) = <<>> THEN CollectPatternsSkippingEmpty(Tail(pieces), acc)
    ELSE LET p == PatternNew(Head(pieces))
         IN  IF p.ok THEN CollectPatternsSkippingEmpty(Tail(pieces), Append(acc, p.tokens))
             ELSE [ok |-> FALSE, patterns |-> <<>>,
                   err |-> Err("pattern",
                               Lit(PATTERN_VAR) \o Lit(" contains an invalid pattern ")
                                 \o Head(pieces))]

\* the closure of lines 90-98 over the pieces of the value, collected into a
\* Result: the first error, or every compiled pattern
RECURSIVE CollectPatterns(_, _)
CollectPatterns(pieces, acc) ==
    IF pieces = <<>> THEN [ok |-> TRUE, patterns |-> acc, err |-> Running]
    ELSE IF Head(pieces) = <<>>
    THEN [ok |-> FALSE, patterns |-> <<>>,
          err |-> Err("pattern", Lit(PATTERN_VAR) \o Lit(" contains an empty pattern"))]
    ELSE LET p == PatternNew(Head(pieces))
         IN  IF p.ok THEN CollectPatterns(Tail(pieces), Append(acc, p.tokens))
             ELSE [ok |-> FALSE, patterns |-> <<>>,
                   err |-> Err("pattern",
                               Lit(PATTERN_VAR) \o Lit(" contains an invalid pattern ")
                                 \o Head(pieces))]

\* var is the state of FURIOSA_METADATA_EXPECT_MODIFIED in the environment
GetExpectedPatterns(var) ==
    IF var.state = "Present" /\ var.value = <<>>
    THEN [ok |-> TRUE, patterns |-> <<>>, err |-> Running]
    ELSE IF var.state = "Present" THEN CollectPatterns(Split(var.value, ":"), <<>>)
    ELSE IF var.state = "NotPresent" THEN [ok |-> TRUE, patterns |-> <<>>, err |-> Running]
    ELSE [ok |-> FALSE, patterns |-> <<>>,
          err |-> Err("var", Lit("environment variable was not valid unicode"))]

-----------------------------------------------------------------------------
(* The two parse closures of git_hash                                      *)

IsLowerHexDigit(c) ==
    c \in {"0", "1", "2", "3", "4", "5", "6", "7", "8", "9", "a", "b", "c", "d", "e", "f"}

\* lines 117-124: the closure given to run_git for rev-parse
ParseCommitId(s) ==
    LET t == TrimEnd(s)
    IN  IF Len(t) >= 9 /\ \A k \in 1..Len(t) : IsLowerHexDigit(t[k])
        THEN [ok |-> TRUE, value |-> t, e |-> "", notices |-> <<>>]
        ELSE [ok |-> FALSE, value |-> <<>>, e |-> "bad commit id", notices |-> <<>>]

StatusCodes == {" ", "M", "T", "A", "D", "R", "C", "U"}

\* lines 148-157: the matches! on the bytes of a line
IsStatusLine(line) ==
    /\ Len(line) >= 4
    /\ line[1] \in StatusCodes
    /\ line[2] \in StatusCodes
    /\ line[3] = " "

\* line 162 with all in place of any
MatchesEveryPattern(expected_patterns, path) ==
    \A k \in 1..Len(expected_patterns) : PatternMatches(expected_patterns[k], path)

\* line 162
MatchesAnyPattern(expected_patterns, path) ==
    \E k \in 1..Len(expected_patterns) : PatternMatches(expected_patterns[k], path)

\* lines 141-169 with the loop left as soon as a line made the result dirty
RECURSIVE StatusLoopUntilDirty(_, _, _, _)
StatusLoopUntilDirty(lines, expected_patterns, isDirty, ignored) ==
    IF lines = <<>> \/ isDirty
    THEN [ok |-> TRUE, value |-> isDirty, e |-> "", notices |-> ignored]
    ELSE LET line == Head(lines)
         IN  IF StartsWith(line, << "?", "?", " " >>)
             THEN [ok |-> FALSE, value |-> FALSE,
                   e |-> "untracked file should have been omitted", notices |-> ignored]
             ELSE IF StartsWith(line, << "!", "!", " " >>)
             THEN [ok |-> FALSE, value |-> FALSE,
                   e |-> "ignored file should have been omitted", notices |-> ignored]
             ELSE IF ~(/\ Len(line) >= 4
                       /\ line[1] \in {" ", "M", "T", "A", "D", "R", "C", "U"}
                       /\ line[2] \in {" ", "M", "T", "A", "D", "R", "C", "U"}
                       /\ line[3] = " ")
             THEN [ok |-> FALSE, value |-> FALSE, e |-> "bad status", notices |-> ignored]
             ELSE LET path == SubSeq(line, 4, Len(line))
                  IN  IF \E k \in 1..Len(expected_patterns) :
                             PatternMatches(expected_patterns[k], path)
                      THEN StatusLoopUntilDirty(Tail(lines), expected_patterns, isDirty,
                                                Append(ignored, path))
                      ELSE StatusLoopUntilDirty(Tail(lines), expected_patterns, TRUE,
                                                ignored)

\* lines 141-169: the for loop, from the lines still to read
RECURSIVE StatusLoop(_, _, _, _)
StatusLoop(lines, expected_patterns, isDirty, ignored) ==
    IF lines = <<>>
    THEN [ok |-> TRUE, value |-> isDirty, e |-> "", notices |-> ignored]
    ELSE LET line == Head(lines)
         IN  IF StartsWith(line, << "?", "?", " " >>)
             THEN [ok |-> FALSE, value |-> FALSE,
                   e |-> "untracked file should have been omitted", notices |-> ignored]
             ELSE IF StartsWith(line, << "!", "!", " " >>)
             THEN [ok |-> FALSE, value |-> FALSE,
                   e |-> "ignored file should have been omitted", notices |-> ignored]
             ELSE IF ~IsStatusLine(line)
             THEN [ok |-> FALSE, value |-> FALSE, e |-> "bad status", notices |-> ignored]
             ELSE LET path == SubSeq(line, 4, Len(line))
                  IN  IF MatchesAnyPattern(expected_patterns, path)
                      THEN StatusLoop(Tail(lines), expected_patterns, isDirty,
                                      Append(ignored, path))
                      ELSE StatusLoop(Tail(lines), expected_patterns, TRUE, ignored)

\* lines 136-171: the closure given to run_git for status
ParseStatus(s, expected_patterns) ==
    StatusLoop(SplitTerminator(s, NUL), expected_patterns, FALSE, <<>>)

-----------------------------------------------------------------------------
(* The command runner: extract_stdout, get_workspace_dir, run_git          *)

\* ExitStatus::success
Success(status) == status = 0

\* Display of an ExitStatus
StatusText(status) == Lit("exit status: ") \o Lit(ToString(status))

\* lines 181-201 with the two checks in the other order
ExtractStdoutDecodingFirst(cmd_line, out) ==
    IF ~IsUtf8(out.stdout)
    THEN [ok |-> FALSE, stdout |-> <<>>,
          err |-> Err("utf8",
                      Lit("Unexpected output from ") \o Lit(BACKTICK) \o cmd_line
                        \o Lit(BACKTICK) \o Lit(": ")
                        \o Lit("invalid utf-8 sequence") \o Lit("\n\n")
                        \o EscapeAscii(out.stdout))]
    ELSE IF ~Success(out.status)
    THEN [ok |-> FALSE, stdout |-> <<>>,
          err |-> Err("command",
                      Lit(BACKTICK) \o cmd_line \o Lit(BACKTICK) \o Lit(" failed: ")
                        \o StatusText(out.status)
                        \o Lit("\n\n") \o EscapeAscii(out.stderr))]
    ELSE [ok |-> TRUE, stdout |-> out.stdout, err |-> Running]

\* lines 181-201
ExtractStdout(cmd_line, out) ==
    IF ~Success(out.status)
    THEN [ok |-> FALSE, stdout |-> <<>>,
          err |-> Err("command",
                      Lit(BACKTICK) \o cmd_line \o Lit(BACKTICK) \o Lit(" failed: ")
                        \o StatusText(out.status)
                        \o Lit("\n\n") \o EscapeAscii(out.stderr))]
    ELSE IF ~IsUtf8(out.stdout)
    THEN [ok |-> FALSE, stdout |-> <<>>,
          err |-> Err("utf8",
                      Lit("Unexpected output from ") \o Lit(BACKTICK) \o cmd_line
                        \o Lit(BACKTICK) \o Lit(": ")
                        \o Lit("invalid utf-8 sequence") \o Lit("\n\n")
                        \o EscapeAscii(out.stdout))]
    ELSE [ok |-> TRUE, stdout |-> out.stdout, err |-> Running]

\* the error of Command::output() when the process cannot be started
IoError == Err("io", Lit("No such file or directory (os error 2)"))

CARGO == "cargo"
LocateProjectArgs == << "locate-project", "--workspace", "--message-format=plain" >>

\* line 208
CargoCmdLine == Lit(CARGO) \o Lit(" ") \o Join(LocateProjectArgs, " ")

\* lines 203-213, given what spawning cargo produced
GetWorkspaceDirOf(out) ==
    IF ~out.started THEN [ok |-> FALSE, dir |-> <<>>, err |-> IoError]
    ELSE LET x == ExtractStdout(CargoCmdLine, out)
         IN  IF ~x.ok THEN [ok |-> FALSE, dir |-> <<>>, err |-> x.err]
             ELSE [ok |-> TRUE, dir |-> PathParent(Trim(x.stdout)), err |-> Running]

\* line 224
GitCmdLine(dir, args) == Lit("git -C ") \o dir \o Lit(" ") \o Join(args, " ")

\* The two closures git_hash gives to run_git, as data: the status closure
\* captures expected_patterns.
CommitIdClosure == [name |-> "commit id", expected_patterns |-> <<>>]
StatusClosure(expected_patterns) ==
    [name |-> "status", expected_patterns |-> expected_patterns]

\* line 228: parse(stdout)
Call(parse, stdout) ==
    IF parse.name = "status" THEN ParseStatus(stdout, parse.expected_patterns)
    ELSE ParseCommitId(stdout)

\* lines 224-229, given what spawning git produced and the parse closure.
\* extracted tells whether extract_stdout returned the text, parsed whether the
\* closure was called, p what it returned.
RunGitOf(dir, args, out, parse) ==
    IF ~out.started
    THEN [ok |-> FALSE, err |-> IoError, extracted |-> FALSE, parsed |-> FALSE,
          p |-> ParseCommitId(<<>>)]
    ELSE LET cmd_line == GitCmdLine(dir, args)
             x == ExtractStdout(cmd_line, out)
         IN  IF ~x.ok
             THEN [ok |-> FALSE, err |-> x.err, extracted |-> FALSE, parsed |-> FALSE,
                   p |-> ParseCommitId(<<>>)]
             ELSE LET p == Call(parse, x.stdout)
                  IN  IF p.ok
                      THEN [ok |-> TRUE, err |-> Running, extracted |-> TRUE,
                            parsed |-> TRUE, p |-> p]
                      ELSE [ok |-> FALSE, extracted |-> TRUE, parsed |-> TRUE, p |-> p,
                            err |-> Err("parse",
                                        Lit("Unexpected output from ") \o Lit(BACKTICK)
                                          \o cmd_line \o Lit(BACKTICK) \o Lit(": ")
                                          \o Lit(p.e) \o Lit("\n\n") \o x.stdout)]

\* lines 110-114
RevParseArgs(isShort) ==
    IF isShort THEN << "rev-parse", "--short=9", "HEAD" >> ELSE << "rev-parse", "HEAD" >>

\* lines 128-135
StatusArgs ==
    << "status", "--untracked=no", "--ignore-submodules=all", "--no-renames",
       "--porcelain", "-z" >>

MODIFIED == "-modified"

\* lines 174-178: push_str of the suffix when dirty
WithSuffix(hash, isDirty) == IF isDirty THEN hash \o Lit(MODIFIED) ELSE hash

-----------------------------------------------------------------------------
(* What the environment can hold and what the subprocesses can print.      *)

Hash9 == << "a", "b", "c", "d", "e", "f", "0", "1", "2" >>
Hash40 == Hash9 \o Hash9 \o Hash9 \o Hash9 \o << "3", "4", "5", "6" >>

\* standard output of git rev-parse: a hash of 9, of 40 and of 8 digits, one with
\* a letter that is no hex digit, one in upper case, and nothing
RevParseTexts ==
    { Hash9 \o << "\n" >>,
      Hash40 \o << "\n" >>,
      SubSeq(Hash9, 1, 8) \o << "\n" >>,
      SubSeq(Hash9, 1, 8) \o << "g", "\n" >>,
      SubSeq(Hash9, 1, 8) \o << "A", "\n" >>,
      <<>> }

FooBarBak == << "f", "o", "o", "/", "b", "a", "r", ".", "b", "a", "k" >>
Src == << "s", "r", "c" >>

\* records of a status report that follow the grammar
GoodRecords ==
    { << " ", "M", " " >> \o FooBarBak,
      << "A", "D", " " >> \o Src }

\* records that do not: untracked, ignored, a code outside the alphabet in the
\* first and in the second place, no space in the third place, an empty path
BadRecords ==
    { << "?", "?", " ", "n" >>,
      << "!", "!", " ", "i" >>,
      << "X", "M", " ", "a" >>,
      << "M", "X", " ", "a" >>,
      << "M", "M", "s", "r", "c" >>,
      << "M", "M", " " >> }

StatusRecords == GoodRecords \cup BadRecords

RecordLists == UNION { [1..n -> StatusRecords] : n \in 0..MaxRecords }

\* the report git status -z prints for a list of records
RECURSIVE Porcelain(_)
Porcelain(records) ==
    IF records = <<>> THEN <<>>
    ELSE Head(records) \o << NUL >> \o Porcelain(Tail(records))

StatusTexts == { Porcelain(rs) : rs \in RecordLists }

StarBak == << "*", ".", "b", "a", "k" >>
RecursiveStarBak == << "*", "*", "/" >> \o StarBak

\* values of FURIOSA_METADATA_EXPECT_MODIFIED: well-formed lists
GoodPatternValues ==
    { <<>>,
      StarBak,
      RecursiveStarBak,
      << "[", "r", "-", "t", "]", "*", ":", "f", "o", "o", "/", "*" >> }

\* a malformed pattern, alone and after a good one; an empty pattern at the
\* front, at the end and between colons
BadPatternValues ==
    { << "*", "*", "*" >>,
      Src \o << ":", "[", "a" >>,
      << ":" >> \o Src,
      StarBak \o << ":" >>,
      Src \o << ":", ":" >> \o StarBak }

Var(state, value) == [state |-> state, value |-> value]

PatternVars ==
    { Var("NotPresent", <<>>), Var("NotUnicode", <<>>) }
        \cup { Var("Present", v) : v \in GoodPatternValues \cup BadPatternValues }

\* a hash variable before the run: absent, set, or set to bytes that are no
\* unicode
HashVars ==
    { Var("NotPresent", <<>>), Var("NotUnicode", <<>>), Var("Present", << "x" >>) }

\* FURIOSA_BUILD_TIMESTAMP before the run
TimestampVars == { Var("NotPresent", <<>>), Var("Present", << "x" >>) }

Outcome(started, status, stdout, stderr) ==
    [started |-> started, status |-> status, stdout |-> stdout, stderr |-> stderr]

NoOutcome == Outcome(FALSE, 0, <<>>, <<>>)

\* what spawning a command can produce besides a successful run with text: no
\* process, a failing exit with and without valid output, output that is no UTF-8
FailingOutcomes ==
    { Outcome(FALSE, 0, <<>>, <<>>),
      Outcome(TRUE, 128, <<>>, << "f", "a", "i", "\n" >>),
      Outcome(TRUE, 1, << XFF >>, << XFF >>),
      Outcome(TRUE, 0, << "a", XFF >>, <<>>) }

CargoToml == << "/", "w", "/", "C", "\n" >>

CargoOutcomes == FailingOutcomes \cup { Outcome(TRUE, 0, CargoToml, <<>>) }
RevParseOutcomes == FailingOutcomes \cup { Outcome(TRUE, 0, t, <<>>) : t \in RevParseTexts }
StatusOutcomes == FailingOutcomes \cup { Outcome(TRUE, 0, t, <<>>) : t \in StatusTexts }

-----------------------------------------------------------------------------
(* The state of one run of set_metadata_env_vars                           *)

VARIABLES
    env,                \* the environment variables the run reads
    pc,                 \* where the run is
    short,              \* the flag of the git_hash call in progress
    expected_patterns,  \* the compiled patterns of that call
    workspace_dir,      \* the directory run_git got from get_workspace_dir
    output,             \* what the last spawned command produced
    git_hash,           \* the commit id parsed from rev-parse
    dirty,              \* the verdict parsed from status
    ret,                \* what git_hash returned
    procLog,            \* the commands spawned so far and what came of each
    emitted,            \* the lines printed on stdout so far
    result              \* Running, then what set_metadata_env_vars returned

vars ==
    << env, pc, short, expected_patterns, workspace_dir, output, git_hash, dirty,
       ret, procLog, emitted, result >>

Line(key, name, value) == [key |-> key, name |-> name, value |-> value]

HashVarName(isShort) ==
    IF isShort THEN "FURIOSA_GIT_SHORT_HASH" ELSE "FURIOSA_GIT_FULL_HASH"

ForHash(isShort) == IF isShort THEN "short" ELSE "full"

LogEntry(cmd, out, yielded, parsed, accepted) ==
    [cmd |-> cmd, for |-> ForHash(short), started |-> out.started,
     success |-> out.started /\ Success(out.status),
     utf8 |-> out.started /\ IsUtf8(out.stdout),
     yielded |-> yielded, parsed |-> parsed, accepted |-> accepted]

\* what the command runner yielded for a spawned command: the text, or the kind
\* of the error of Command::output or extract_stdout
Yielded(extracted, err) == IF extracted THEN "payload" ELSE err.kind

Init ==
    /\ env \in [short : HashVars, full : HashVars, timestamp : TimestampVars,
                patterns : PatternVars]
    /\ pc = "check_short"
    /\ short = TRUE
    /\ expected_patterns = <<>>
    /\ workspace_dir = <<>>
    /\ output = NoOutcome
    /\ git_hash = <<>>
    /\ dirty = FALSE
    /\ ret = <<>>
    /\ procLog = <<>>
    /\ emitted = <<>>
    /\ result = Running

\* the run returns the error: the ? operator
Fail(err) ==
    /\ result' = err
    /\ pc' = "done"

\* line 67
CheckShort ==
    /\ pc = "check_short"
    /\ IF env.short.state = "NotPresent"
       THEN pc' = "patterns" /\ short' = TRUE
       ELSE pc' = "check_full" /\ short' = short
    /\ UNCHANGED << env, expected_patterns, workspace_dir, output, git_hash, dirty,
                    ret, procLog, emitted, result >>

\* line 72
CheckFull ==
    /\ pc = "check_full"
    /\ IF env.full.state = "NotPresent"
       THEN pc' = "patterns" /\ short' = FALSE
       ELSE pc' = "timestamp" /\ short' = short
    /\ UNCHANGED << env, expected_patterns, workspace_dir, output, git_hash, dirty,
                    ret, procLog, emitted, result >>

\* lines 68 and 73: the call of get_expected_patterns
ExpectedPatterns ==
    /\ pc = "patterns"
    /\ emitted' = Append(emitted, Line("cargo:rerun-if-env-changed", PATTERN_VAR, <<>>))
    /\ LET r == GetExpectedPatterns(env.patterns)
       IN  IF r.ok
           THEN /\ expected_patterns' = r.patterns
                /\ pc' = "workspace_rev_parse"
                /\ result' = result
           ELSE /\ expected_patterns' = expected_patterns
                /\ Fail(r.err)
    /\ UNCHANGED << env, short, workspace_dir, output, git_hash, dirty, ret, procLog >>

\* line 222: run_git calls get_workspace_dir, which spawns cargo
GetWorkspaceDir ==
    /\ pc \in {"workspace_rev_parse", "workspace_status"}
    /\ \E out \in CargoOutcomes :
         LET r == GetWorkspaceDirOf(out)
         IN  /\ output' = out
             /\ procLog' = Append(procLog,
                                  LogEntry("cargo", out, Yielded(r.ok, r.err), FALSE, FALSE))
             /\ IF r.ok
                THEN /\ workspace_dir' = r.dir
                     /\ pc' = IF pc = "workspace_rev_parse" THEN "rev_parse" ELSE "status"
                     /\ result' = result
                ELSE /\ workspace_dir' = workspace_dir
                     /\ Fail(r.err)
    /\ UNCHANGED << env, short, expected_patterns, git_hash, dirty, ret, emitted >>

\* lines 115-125 with the error of run_git dropped in place of returned
RevParseKeepingGoing ==
    /\ pc = "rev_parse"
    /\ \E out \in RevParseOutcomes :
         LET r == RunGitOf(workspace_dir, RevParseArgs(short), out, CommitIdClosure)
         IN  /\ output' = out
             /\ procLog' = Append(procLog,
                                  LogEntry("rev-parse", out, Yielded(r.extracted, r.err),
                                           r.parsed, r.ok))
             /\ git_hash' = r.p.value
             /\ pc' = "workspace_status"
             /\ result' = result
    /\ UNCHANGED << env, short, expected_patterns, workspace_dir, dirty, ret, emitted >>

\* lines 115-125: run_git spawns git rev-parse and parses the commit id
RevParse ==
    /\ pc = "rev_parse"
    /\ \E out \in RevParseOutcomes :
         LET r == RunGitOf(workspace_dir, RevParseArgs(short), out, CommitIdClosure)
         IN  /\ output' = out
             /\ procLog' = Append(procLog,
                                  LogEntry("rev-parse", out, Yielded(r.extracted, r.err),
                                           r.parsed, r.ok))
             /\ IF r.ok
                THEN /\ git_hash' = r.p.value
                     /\ pc' = "workspace_status"
                     /\ result' = result
                ELSE /\ git_hash' = git_hash
                     /\ Fail(r.err)
    /\ UNCHANGED << env, short, expected_patterns, workspace_dir, dirty, ret, emitted >>

\* lines 127-172: run_git spawns git status and parses the report
Status ==
    /\ pc = "status"
    /\ \E out \in StatusOutcomes :
         LET r == RunGitOf(workspace_dir, StatusArgs, out,
                           StatusClosure(expected_patterns))
         IN  /\ output' = out
             /\ procLog' = Append(procLog,
                                  LogEntry("status", out, Yielded(r.extracted, r.err),
                                           r.parsed, r.ok))
             /\ IF r.ok
                THEN /\ dirty' = r.p.value
                     /\ pc' = "hash_return"
                     /\ result' = result
                ELSE /\ dirty' = dirty
                     /\ Fail(r.err)
    /\ UNCHANGED << env, short, expected_patterns, workspace_dir, git_hash, ret, emitted >>

\* lines 174-178: git_hash returns the hash, with the suffix when dirty
HashReturn ==
    /\ pc = "hash_return"
    /\ ret' = WithSuffix(git_hash, dirty)
    /\ pc' = "emit_hash"
    /\ UNCHANGED << env, short, expected_patterns, workspace_dir, output, git_hash,
                    dirty, procLog, emitted, result >>

\* the println! of lines 69 and 74
EmitHash ==
    /\ pc = "emit_hash"
    /\ emitted' = Append(emitted, Line("cargo:rustc-env", HashVarName(short), ret))
    /\ pc' = IF short THEN "check_full" ELSE "timestamp"
    /\ UNCHANGED << env, short, expected_patterns, workspace_dir, output, git_hash,
                    dirty, ret, procLog, result >>

\* build_timestamp, lines 232-235: the clock is read, its value is left open
Now == Lit("%Y-%m-%dT%H:%M:%SZ")

\* lines 77-79
EmitTimestamp ==
    /\ pc = "timestamp"
    /\ emitted' = Append(emitted, Line("cargo:rustc-env", "FURIOSA_BUILD_TIMESTAMP", Now))
    /\ result' = Ok
    /\ pc' = "done"
    /\ UNCHANGED << env, short, expected_patterns, workspace_dir, output, git_hash,
                    dirty, ret, procLog >>

Next ==
    \/ CheckShort
    \/ CheckFull
    \/ ExpectedPatterns
    \/ GetWorkspaceDir
    \/ RevParse
    \/ Status
    \/ HashReturn
    \/ EmitHash
    \/ EmitTimestamp

Spec == Init /\ [][Next]_vars

-----------------------------------------------------------------------------
(* The properties checked.  The record grammar and the verdict are stated  *)
(* here over the whole report, apart from the loop that computes them.     *)

TheRecords == SplitTerminator(output.stdout, NUL)

WellFormed(r) ==
    /\ Len(r) >= 4
    /\ r[1] \in {" ", "M", "T", "A", "D", "R", "C", "U"}
    /\ r[2] \in {" ", "M", "T", "A", "D", "R", "C", "U"}
    /\ r[3] = " "

PathOf(r) == SubSeq(r, 4, Len(r))

Unignored(r) ==
    \A k \in 1..Len(expected_patterns) : ~PatternMatches(expected_patterns[k], PathOf(r))

LastLog == procLog[Len(procLog)]

\* the state holds the report of a git status that ran and printed text
ReportRead ==
    /\ procLog # <<>>
    /\ LastLog.cmd = "status"
    /\ LastLog.yielded = "payload"

Bindings(name) ==
    { i \in 1..Len(emitted) : emitted[i].key = "cargo:rustc-env" /\ emitted[i].name = name }

\* C1: when every record of the report is well-formed, git_hash returns the
\* base hash with "-modified" appended once if some record's path matches none
\* of the patterns, and the base hash alone otherwise; it does not fail.
C1_DirtyIffUnignoredRecord ==
    (ReportRead /\ \A i \in 1..Len(TheRecords) : WellFormed(TheRecords[i]))
        => /\ LastLog.accepted
           /\ pc # "done" \/ result.tag = "Ok"
           /\ pc = "emit_hash" =>
                ret = IF \E i \in 1..Len(TheRecords) : Unignored(TheRecords[i])
                      THEN git_hash \o << "-modified" >>
                      ELSE git_hash

\* C1 happens: a report of two records, one ignored and one not, under a
\* non-empty pattern list, returned with the suffix
C1_Witness ==
    /\ pc = "emit_hash"
    /\ Len(TheRecords) = 2
    /\ expected_patterns # <<>>
    /\ ~Unignored(TheRecords[1])
    /\ Unignored(TheRecords[2])
    /\ ret = git_hash \o << "-modified" >>

\* C2: a report with a record that violates the grammar makes git_hash return a
\* parse error and no hash, wherever the record sits and whatever the other
\* records and the patterns are.
C2_BadRecordIsParseError ==
    (ReportRead /\ \E i \in 1..Len(TheRecords) : ~WellFormed(TheRecords[i]))
        => /\ pc = "done"
           /\ result.tag = "Err"
           /\ result.kind = "parse"
           /\ ~LastLog.accepted
           /\ Bindings(HashVarName(short)) = {}

\* C2 happens: the bad record comes after a record that is dirty already
C2_Witness ==
    /\ ReportRead
    /\ Len(TheRecords) = 2
    /\ WellFormed(TheRecords[1])
    /\ Unignored(TheRecords[1])
    /\ ~WellFormed(TheRecords[2])
    /\ result.kind = "parse"

IsHashText(h) == \A k \in 1..Len(h) : IsLowerHexDigit(h[k])

\* lower-case hex digits of the length the form asks for
MeetsForm(h, isShort) ==
    /\ IsHashText(h)
    /\ isShort => Len(h) >= 9
    /\ ~isShort => Len(h) = 40

\* C3, as claimed: a returned string is lower-case hex digits, optionally
\* followed by "-modified", with at least 9 digits in the short form and exactly
\* 40 in the full form; rev-parse output that does not meet this is rejected with
\* a parse error.
C3_HashHasTheLengthOfItsForm ==
    /\ pc = "emit_hash"
        => /\ ret \in {git_hash, git_hash \o << "-modified" >>}
           /\ MeetsForm(git_hash, short)
    /\ ( /\ procLog # <<>>
         /\ LastLog.cmd = "rev-parse"
         /\ LastLog.yielded = "payload"
         /\ ~MeetsForm(TrimEnd(output.stdout), short) )
        => result.tag = "Err" /\ result.kind = "parse"

\* C4, as claimed: a run that ends in an error has emitted no cargo:rustc-env
\* binding.
C4_NoBindingInAFailedRun ==
    result.tag = "Err"
        => \A i \in 1..Len(emitted) : emitted[i].key # "cargo:rustc-env"

GitInvocations(for) ==
    { i \in 1..Len(procLog) : procLog[i].for = for /\ procLog[i].cmd # "cargo" }

\* C5, as claimed: an output whose variable is set when the run starts gets no
\* binding (and, for a hash, no git invocation); one whose variable is not set
\* has exactly one binding when the run has succeeded.
C5_EachOutputSkippedIfSet ==
    pc = "done"
        => /\ env.short.state # "NotPresent"
                => Bindings("FURIOSA_GIT_SHORT_HASH") = {} /\ GitInvocations("short") = {}
           /\ env.full.state # "NotPresent"
                => Bindings("FURIOSA_GIT_FULL_HASH") = {} /\ GitInvocations("full") = {}
           /\ env.timestamp.state # "NotPresent"
                => Bindings("FURIOSA_BUILD_TIMESTAMP") = {}
           /\ result.tag = "Ok" =>
                /\ env.short.state = "NotPresent"
                     => Cardinality(Bindings("FURIOSA_GIT_SHORT_HASH")) = 1
                /\ env.full.state = "NotPresent"
                     => Cardinality(Bindings("FURIOSA_GIT_FULL_HASH")) = 1
                /\ env.timestamp.state = "NotPresent"
                     => Cardinality(Bindings("FURIOSA_BUILD_TIMESTAMP")) = 1

\* the value is non-empty and one of its colon-separated pieces is empty or is
\* no glob pattern
BadPatternList(var) ==
    /\ var.state = "Present"
    /\ var.value # <<>>
    /\ \/ var.value[1] = ":"
       \/ var.value[Len(var.value)] = ":"
       \/ \E k \in 1..(Len(var.value) - 1) : var.value[k] = ":" /\ var.value[k + 1] = ":"
       \/ \E a, b \in 1..Len(var.value) :
            /\ a <= b
            /\ a = 1 \/ var.value[a - 1] = ":"
            /\ b = Len(var.value) \/ var.value[b + 1] = ":"
            /\ \A k \in a..b : var.value[k] # ":"
            /\ ~PatternNew(SubSeq(var.value, a, b)).ok

EmptyPatternList(var) ==
    var.state = "NotPresent" \/ (var.state = "Present" /\ var.value = <<>>)

ConfigurationError == result.tag = "Err" /\ result.kind = "pattern"

\* C6, as claimed: a bad pattern list always makes the run fail with a
\* configuration error before any subprocess; an empty or absent one gives an
\* empty list and no error.
C6_BadPatternsAlwaysFail ==
    /\ (pc = "done" /\ BadPatternList(env.patterns))
            => ConfigurationError /\ procLog = <<>>
    /\ EmptyPatternList(env.patterns)
            => expected_patterns = <<>> /\ result.kind \notin {"pattern", "var"}

\* C6, amended: a bad pattern list makes the run fail with a configuration error
\* before any subprocess when a hash variable is absent; when both hash
\* variables are set the list is never read and there is no such error.  An
\* empty or absent list gives an empty pattern list and no error.
C6_BadPatternsFailWhenRead ==
    /\ ( /\ pc = "done" /\ BadPatternList(env.patterns)
         /\ env.short.state = "NotPresent" \/ env.full.state = "NotPresent" )
            => ConfigurationError /\ procLog = <<>>
    /\ ( /\ BadPatternList(env.patterns)
         /\ env.short.state # "NotPresent" /\ env.full.state # "NotPresent" )
            => /\ ~ConfigurationError
               /\ \A i \in 1..Len(emitted) : emitted[i].key # "cargo:rerun-if-env-changed"
    /\ EmptyPatternList(env.patterns)
            => expected_patterns = <<>> /\ result.kind \notin {"pattern", "var"}

\* C6 happens: the short hash is set, the full hash is not, and the run has
\* failed on an empty pattern when it came to the full hash
C6_Witness ==
    /\ pc = "done"
    /\ env.patterns.value = << ":" >> \o Src
    /\ env.short.state = "Present"
    /\ env.full.state = "NotPresent"
    /\ ConfigurationError
    /\ procLog = <<>>

\* C7, as claimed: under the pattern *.bak a change of foo/bar.bak is not
\* ignored and the hash is suffixed; under **/*.bak it is ignored and the hash
\* is not suffixed.
C7_StarStopsAtSeparator ==
    (pc = "emit_hash" /\ TheRecords = << << " ", "M", " " >> \o FooBarBak >>)
        => /\ env.patterns = Var("Present", StarBak)
                => ret = git_hash \o << "-modified" >>
           /\ env.patterns = Var("Present", RecursiveStarBak)
                => ret = git_hash

\* the command line of the last command spawned
LastCmdLine ==
    IF LastLog.cmd = "cargo" THEN CargoCmdLine
    ELSE IF LastLog.cmd = "rev-parse" THEN GitCmdLine(workspace_dir, RevParseArgs(short))
    ELSE GitCmdLine(workspace_dir, StatusArgs)

\* C8: a started command yields its text iff it exited with success and its
\* output is valid UTF-8; a failing exit gives the command-failure error, with
\* the command line, the exit status and the escaped stderr, also when the
\* output is no UTF-8; a successful exit with output that is no UTF-8 gives the
\* decode error with the escaped stdout; run_git calls parse on the text only.
C8_RunnerYieldsTextIffSuccessAndUtf8 ==
    /\ \A i \in 1..Len(procLog) :
         LET e == procLog[i]
         IN  /\ e.started =>
                  /\ e.yielded = "payload" <=> (e.success /\ e.utf8)
                  /\ ~e.success => e.yielded = "command"
                  /\ (e.success /\ ~e.utf8) => e.yielded = "utf8"
             /\ e.parsed <=> (e.cmd # "cargo" /\ e.started /\ e.success /\ e.utf8)
    /\ (procLog # <<>> /\ output.started /\ ~Success(output.status))
         => /\ result = Err("command", result.msg)
            /\ IsInfix(LastCmdLine, result.msg)
            /\ IsInfix(StatusText(output.status), result.msg)
            /\ IsInfix(EscapeAscii(output.stderr), result.msg)
    /\ (procLog # <<>> /\ output.started /\ Success(output.status) /\ ~IsUtf8(output.stdout))
         => /\ result = Err("utf8", result.msg)
            /\ IsInfix(LastCmdLine, result.msg)
            /\ IsInfix(EscapeAscii(output.stdout), result.msg)

\* C8 happens: git exited with a failure and printed bytes that are no UTF-8,
\* and the run ended with the command-failure error
C8_Witness ==
    /\ procLog # <<>>
    /\ LastLog.cmd = "status"
    /\ output.started /\ ~Success(output.status) /\ ~IsUtf8(output.stdout)
    /\ result.tag = "Err" /\ result.kind = "command"

\* C9, as claimed: an error that ends the run during a git invocation carries
\* the command line invoked and the raw output or error bytes of the command.
C9_EveryGitFailureNamesItsCommand ==
    (result.tag = "Err" /\ procLog # <<>> /\ LastLog.cmd # "cargo")
        => /\ IsInfix(LastCmdLine, result.msg)
           /\ \/ output.stderr # <<>> /\ IsInfix(EscapeAscii(output.stderr), result.msg)
              \/ output.stdout # <<>> /\ IsInfix(EscapeAscii(output.stdout), result.msg)
              \/ IsInfix(output.stdout, result.msg)

Ran(e) == e.started /\ e.success /\ e.utf8

Passed(e) == Ran(e) /\ e.accepted

\* C10: git status is spawned only after the rev-parse of the same git_hash call
\* exited with success and its output passed validation, with nothing but the
\* lookup of the workspace between them; when rev-parse cannot be spawned, fails,
\* prints bytes that are no UTF-8 or prints an invalid hash, the run ends with
\* that error and no status follows.
C10_StatusOnlyAfterValidRevParse ==
    /\ \A i \in 1..Len(procLog) :
         procLog[i].cmd = "status"
            => /\ i >= 3
               /\ procLog[i - 1].cmd = "cargo" /\ Ran(procLog[i - 1])
               /\ procLog[i - 2].cmd = "rev-parse" /\ Passed(procLog[i - 2])
               /\ procLog[i - 2].for = procLog[i].for
    /\ \A i \in 1..Len(procLog) :
         (procLog[i].cmd = "rev-parse" /\ ~Passed(procLog[i]))
            => /\ i = Len(procLog)
               /\ pc = "done"
               /\ result.tag = "Err"
               /\ result.kind = IF ~procLog[i].started THEN "io"
                                ELSE IF ~procLog[i].success THEN "command"
                                ELSE IF ~procLog[i].utf8 THEN "utf8"
                                ELSE "parse"

\* C10 happens: the short hash was computed, its status spawned after its
\* rev-parse, and then the rev-parse of the full hash printed an invalid hash and
\* the run ended there
C10_Witness ==
    /\ pc = "done"
    /\ \E i \in 1..Len(procLog) : procLog[i].cmd = "status"
    /\ LastLog.cmd = "rev-parse"
    /\ Ran(LastLog) /\ ~LastLog.accepted
    /\ result.kind = "parse"

=============================================================================
